---- MODULE Spec2Model ----
(***************************************************************************)
(* The validate-address tool of src/src/server.ts: one asynchronous        *)
(* handler per invocation, suspended at its awaits (token fetch, token     *)
(* body, lookup fetch, error body / lookup body), and the synchronous      *)
(* response processing that turns the USPS reply into the feedback text.   *)
(*                                                                         *)
(* Texts are TLA+ strings.  Streets are sequences of one-character strings *)
(* so that trim() and toUpperCase() are computed character by character;   *)
(* Str renders such a sequence as the text a template literal produces.    *)
(* A JavaScript value that may be undefined is None or Some(v).            *)
(***************************************************************************)
EXTENDS Integers, Sequences, FiniteSets, TLC

VARIABLES pc, params, tokenResponse, validationUrl, lookupCalls,
          validationResponse, validationData, caught, result

vars == <<pc, params, tokenResponse, validationUrl, lookupCalls,
          validationResponse, validationData, caught, result>>

-----------------------------------------------------------------------------
(* Bounds of the model *)

MaxLen == 3

NumCalls == 3

Calls == 1 .. NumCalls

-----------------------------------------------------------------------------
(* Optional values *)

None == <<>>

Some(v) == <<v>>

-----------------------------------------------------------------------------
(* Characters and strings *)

WhiteSpace == {" "}

Chars == {" ", "a", "A"}

Streets == UNION {[1 .. n -> Chars] : n \in 0 .. MaxLen}

RECURSIVE Str(_)
Str(s) == IF s = <<>> THEN "" ELSE s[1] \o Str(Tail(s))

RECURSIVE TrimStart(_)
TrimStart(s) ==
    IF s # <<>> /\ s[1] \in WhiteSpace THEN TrimStart(Tail(s)) ELSE s

RECURSIVE TrimEnd(_)
TrimEnd(s) ==
    IF s # <<>> /\ s[Len(s)] \in WhiteSpace
    THEN TrimEnd(SubSeq(s, 1, Len(s) - 1))
    ELSE s

Trim(s) == TrimEnd(TrimStart(s))

UpperChar(ch) == IF ch = "a" THEN "A" ELSE ch

ToUpperCase(s) == [i \in 1 .. Len(s) |-> UpperChar(s[i])]

\* `${v}` of a value that may be undefined
Interpolate(m) == IF m = None THEN "undefined" ELSE m[1]

-----------------------------------------------------------------------------
(* Inputs: tool arguments and USPS replies *)

SubmittedCity == "Springfield"

SubmittedState == "il"

ZipCodes == {None, Some("62704")}

ParamsOf(streets, zips) ==
    [streetAddress : streets, city : {SubmittedCity},
     state : {SubmittedState}, zipCode : zips]

\* validationData.address: a missing streetAddress is the malformed reply
AddressesOf(streets) ==
    [streetAddress : {None} \cup {Some(s) : s \in streets},
     city : {Some("SPRINGFIELD")}, state : {Some("IL")},
     ZIPCode : {Some("62704")}, ZIPPlus4 : {Some("1234")}]

DPVCodes == {"Y", "D", "S", "N", "y"}

AdditionalInfos ==
    [DPVConfirmation : {None} \cup {Some(k) : k \in DPVCodes}]

ErrorLists ==
    { <<>>,
      << [text |-> Some("Address Not Found.")], [text |-> Some("Invalid City.")] >>,
      << [text |-> None] >> }

DataOf(streets, infos, errs) ==
    [address : {None} \cup {Some(a) : a \in AddressesOf(streets)},
     additionalInfo : {None} \cup {Some(i) : i \in infos},
     errors : {None} \cup {Some(e) : e \in errs}]

AllParams == ParamsOf(Streets, ZipCodes)

AllData == DataOf(Streets, AdditionalInfos, ErrorLists)

StatusCodes == {200, 404, 500}

\* the inputs of the runs with several invocations in flight
SampleStreets == {<<"a">>, <<"a", "a">>}

SampleParams == ParamsOf(SampleStreets, {None})

SampleData ==
    {d \in DataOf({<<"A">>}, {[DPVConfirmation |-> Some("Y")]}, {}) :
        /\ d.additionalInfo # None
        /\ d.address # None => d.address[1].streetAddress # None}

SampleStatus == {200, 404}

\* the inputs of the runs under fairness: one invocation, short streets
ShortStreets == {<<>>, <<" ">>, <<"a">>, <<"A">>}

ShortParams == ParamsOf(ShortStreets, ZipCodes)

ShortData == DataOf(ShortStreets, AdditionalInfos, ErrorLists)

Ok(status) == status \in 200 .. 299

FetchErrors == {"fetch failed"}

JsonErrors == {"Unexpected end of JSON input"}

TrimTypeError == "Cannot read properties of undefined (reading 'trim')"

-----------------------------------------------------------------------------
(* 3. Process the Response *)

DefaultFeedback == "Address is invalid."

DPVConfirmation(data) ==
    IF data.additionalInfo = None
    THEN None
    ELSE data.additionalInfo[1].DPVConfirmation

\* variant: the submitted street compared without trim()
originalStreetUntrimmed(p) == ToUpperCase(p.streetAddress)

originalStreet(p) == ToUpperCase(Trim(p.streetAddress))

returnedStreet(data) ==
    ToUpperCase(Trim(data.address[1].streetAddress[1]))

\* variant: the suggestion built from the normalized street
suggestedAddressNormalized(data) ==
    LET a == data.address[1]
    IN  Str(returnedStreet(data)) \o ", " \o Interpolate(a.city) \o ", "
        \o Interpolate(a.state) \o " " \o Interpolate(a.ZIPCode) \o "-"
        \o Interpolate(a.ZIPPlus4)

suggestedAddress(data) ==
    LET a == data.address[1]
    IN  Str(a.streetAddress[1]) \o ", " \o Interpolate(a.city) \o ", "
        \o Interpolate(a.state) \o " " \o Interpolate(a.ZIPCode) \o "-"
        \o Interpolate(a.ZIPPlus4)

\* variant: the code compared without regard to case
ConfirmedAnyCase(code) == code \in {Some("Y"), Some("y")}

Confirmed(code) == code = Some("Y")

SecondaryProblem(code) == code = Some("D") \/ code = Some("S")

\* variant: the confirmation code tested before the street
MatchedFeedbackCodeFirst(p, data) ==
    IF Confirmed(DPVConfirmation(data))
    THEN "Address is valid."
    ELSE IF originalStreet(p) # returnedStreet(data)
    THEN "Address was corrected. Suggested address: " \o suggestedAddress(data)
    ELSE IF SecondaryProblem(DPVConfirmation(data))
    THEN "Address could be more accurate. Suggested address: "
         \o suggestedAddress(data)
    ELSE DefaultFeedback

MatchedFeedback(p, data) ==
    IF originalStreet(p) # returnedStreet(data)
    THEN "Address was corrected. Suggested address: " \o suggestedAddress(data)
    ELSE IF Confirmed(DPVConfirmation(data))
    THEN "Address is valid."
    ELSE IF SecondaryProblem(DPVConfirmation(data))
    THEN "Address could be more accurate. Suggested address: "
         \o suggestedAddress(data)
    ELSE DefaultFeedback

\* variant: the last error reported instead of the first
UnmatchedFeedbackLast(data) ==
    IF data.errors # None /\ Len(data.errors[1]) > 0
    THEN "Invalid Address. Reason: "
         \o Interpolate(data.errors[1][Len(data.errors[1])].text)
    ELSE DefaultFeedback

UnmatchedFeedback(data) ==
    IF data.errors # None /\ Len(data.errors[1]) > 0
    THEN "Invalid Address. Reason: " \o Interpolate(data.errors[1][1].text)
    ELSE DefaultFeedback

\* variant: additionalInfo destructured without the || {} default
ProcessThrowsNoDefault(data) ==
    data.address # None
    /\ (data.additionalInfo = None \/ data.address[1].streetAddress = None)

\* the TypeError of line 157 when the reply's address has no streetAddress
ProcessThrows(data) ==
    data.address # None /\ data.address[1].streetAddress = None

\* variant: the errors list consulted before the address
FeedbackErrorsFirst(p, data) ==
    IF data.errors # None /\ Len(data.errors[1]) > 0
    THEN UnmatchedFeedback(data)
    ELSE IF data.address # None THEN MatchedFeedback(p, data)
    ELSE DefaultFeedback

Feedback(p, data) ==
    IF data.address # None
    THEN MatchedFeedback(p, data)
    ELSE UnmatchedFeedback(data)

\* variant: the catch answering with the generic invalid text
CatchTextGeneric(message) == DefaultFeedback

CatchText(message) == "Error: " \o message

TokenError == "Failed to get USPS access token"

ValidationError(status) ==
    "Failed to validate address with USPS API. Status: " \o ToString(status)

-----------------------------------------------------------------------------
(* The handler of validate-address, one step per resumption *)

Init ==
    /\ pc = [c \in Calls |-> "idle"]
    /\ params = [c \in Calls |-> None]
    /\ tokenResponse = [c \in Calls |-> None]
    /\ validationUrl = [c \in Calls |-> None]
    /\ lookupCalls = [c \in Calls |-> 0]
    /\ validationResponse = [c \in Calls |-> None]
    /\ validationData = [c \in Calls |-> None]
    /\ caught = [c \in Calls |-> None]
    /\ result = [c \in Calls |-> None]

\* variant: the arguments kept in one place shared by all invocations
SubmittedShared(c) ==
    LET live == {d \in Calls : params[d] # None}
    IN  params[CHOOSE d \in live : \A e \in live : d >= e][1]

\* the arguments the handler's closure holds
Submitted(c) == params[c][1]

\* catch (error): the text result built from error.message
Catch(c, message) ==
    /\ caught' = [caught EXCEPT ![c] = Some(message)]
    /\ result' = [result EXCEPT ![c] = Some(CatchText(message))]
    /\ pc' = [pc EXCEPT ![c] = "done"]

\* the tool is called: the handler runs up to the await of the token fetch
Invoke(c, P) ==
    /\ pc[c] = "idle"
    /\ \E p \in P : params' = [params EXCEPT ![c] = Some(p)]
    /\ pc' = [pc EXCEPT ![c] = "tokenFetch"]
    /\ UNCHANGED <<tokenResponse, validationUrl, lookupCalls,
                   validationResponse, validationData, caught, result>>

TokenFetchRejects(c) ==
    /\ pc[c] = "tokenFetch"
    /\ \E m \in FetchErrors : Catch(c, m)
    /\ UNCHANGED <<params, tokenResponse, validationUrl, lookupCalls,
                   validationResponse, validationData>>

\* variant: the token status not tested
TokenOkAlways(r) == TRUE

TokenOk(r) == r.ok

TokenFetchResolves(c) ==
    /\ pc[c] = "tokenFetch"
    /\ \E ok \in BOOLEAN :
         LET r == [ok |-> ok]
         IN  /\ tokenResponse' = [tokenResponse EXCEPT ![c] = Some(r)]
             /\ IF ~TokenOk(r)
                THEN Catch(c, TokenError)
                ELSE /\ pc' = [pc EXCEPT ![c] = "tokenJson"]
                     /\ UNCHANGED <<caught, result>>
    /\ UNCHANGED <<params, validationUrl, lookupCalls,
                   validationResponse, validationData>>

TokenJsonRejects(c) ==
    /\ pc[c] = "tokenJson"
    /\ \E m \in JsonErrors : Catch(c, m)
    /\ UNCHANGED <<params, tokenResponse, validationUrl, lookupCalls,
                   validationResponse, validationData>>

\* the query of the lookup: ZIPCode only when params.zipCode is truthy
SearchParams(p) ==
    << <<"streetAddress", Str(p.streetAddress)>>, <<"city", p.city>>,
       <<"state", p.state>> >>
    \o (IF p.zipCode # None /\ p.zipCode[1] # ""
        THEN << <<"ZIPCode", p.zipCode[1]>> >>
        ELSE << >>)

\* the token body is parsed; the lookup is issued and awaited
TokenJsonResolves(c) ==
    /\ pc[c] = "tokenJson"
    /\ validationUrl' = [validationUrl EXCEPT ![c] = Some(SearchParams(Submitted(c)))]
    /\ lookupCalls' = [lookupCalls EXCEPT ![c] = @ + 1]
    /\ pc' = [pc EXCEPT ![c] = "lookupFetch"]
    /\ UNCHANGED <<params, tokenResponse, validationResponse, validationData,
                   caught, result>>

LookupFetchRejects(c) ==
    /\ pc[c] = "lookupFetch"
    /\ \E m \in FetchErrors : Catch(c, m)
    /\ UNCHANGED <<params, tokenResponse, validationUrl, lookupCalls,
                   validationResponse, validationData>>

LookupFetchResolves(c, statuses) ==
    /\ pc[c] = "lookupFetch"
    /\ \E st \in statuses :
         /\ validationResponse' =
                [validationResponse EXCEPT ![c] = Some([ok |-> Ok(st), status |-> st])]
         /\ pc' = [pc EXCEPT ![c] = IF Ok(st) THEN "lookupJson" ELSE "errorText"]
    /\ UNCHANGED <<params, tokenResponse, validationUrl, lookupCalls,
                   validationData, caught, result>>

\* await validationResponse.text() of a non-success reply, then the throw
ErrorTextResolves(c) ==
    /\ pc[c] = "errorText"
    /\ Catch(c, ValidationError(validationResponse[c][1].status))
    /\ UNCHANGED <<params, tokenResponse, validationUrl, lookupCalls,
                   validationResponse, validationData>>

ErrorTextRejects(c) ==
    /\ pc[c] = "errorText"
    /\ \E m \in FetchErrors : Catch(c, m)
    /\ UNCHANGED <<params, tokenResponse, validationUrl, lookupCalls,
                   validationResponse, validationData>>

LookupJsonRejects(c) ==
    /\ pc[c] = "lookupJson"
    /\ \E m \in JsonErrors : Catch(c, m)
    /\ UNCHANGED <<params, tokenResponse, validationUrl, lookupCalls,
                   validationResponse, validationData>>

\* the lookup body is parsed and processed synchronously up to the return
LookupJsonResolves(c, D) ==
    /\ pc[c] = "lookupJson"
    /\ \E data \in D :
         /\ validationData' = [validationData EXCEPT ![c] = Some(data)]
         /\ IF ProcessThrows(data)
            THEN Catch(c, TrimTypeError)
            ELSE /\ result' = [result EXCEPT ![c] = Some(Feedback(Submitted(c), data))]
                 /\ pc' = [pc EXCEPT ![c] = "done"]
                 /\ UNCHANGED caught
    /\ UNCHANGED <<params, tokenResponse, validationUrl, lookupCalls,
                   validationResponse>>

Step(c, P, D, statuses) ==
    \/ Invoke(c, P)
    \/ TokenFetchRejects(c)
    \/ TokenFetchResolves(c)
    \/ TokenJsonRejects(c)
    \/ TokenJsonResolves(c)
    \/ LookupFetchRejects(c)
    \/ LookupFetchResolves(c, statuses)
    \/ ErrorTextResolves(c)
    \/ ErrorTextRejects(c)
    \/ LookupJsonRejects(c)
    \/ LookupJsonResolves(c, D)

\* once invoked, every await of the handler settles
Resume(c, D, statuses) ==
    \/ TokenFetchRejects(c)
    \/ TokenFetchResolves(c)
    \/ TokenJsonRejects(c)
    \/ TokenJsonResolves(c)
    \/ LookupFetchRejects(c)
    \/ LookupFetchResolves(c, statuses)
    \/ ErrorTextResolves(c)
    \/ ErrorTextRejects(c)
    \/ LookupJsonRejects(c)
    \/ LookupJsonResolves(c, D)

\* one invocation, all inputs
Next == Step(1, AllParams, AllData, StatusCodes)

Spec == Init /\ [][Next]_vars

\* several invocations in flight, sampled inputs
ConcNext == \E c \in Calls : Step(c, SampleParams, SampleData, SampleStatus)

ConcSpec == Init /\ [][ConcNext]_vars

\* one invocation whose awaits all settle
FairNext == Step(1, ShortParams, ShortData, StatusCodes)

FairSpec ==
    Init /\ [][FairNext]_vars /\ WF_vars(Resume(1, ShortData, StatusCodes))

-----------------------------------------------------------------------------
(* Vocabulary of the properties *)

Done(c) == pc[c] = "done"

\* the response processing of lines 149-180 ran on a parsed lookup body
Evaluated(c) == Done(c) /\ validationData[c] # None

Data(c) == validationData[c][1]

HasAddress(c) == Evaluated(c) /\ Data(c).address # None

\* a Matched outcome carrying a street
HasStreet(c) == HasAddress(c) /\ Data(c).address[1].streetAddress # None

Code(c) ==
    IF Data(c).additionalInfo = None
    THEN None
    ELSE Data(c).additionalInfo[1].DPVConfirmation

SubmittedStreet(c) == params[c][1].streetAddress

VerifiedStreet(c) == Data(c).address[1].streetAddress[1]

Norm(s) == ToUpperCase(Trim(s))

StreetsMatch(c) == Norm(SubmittedStreet(c)) = Norm(VerifiedStreet(c))

\* "{street}, {city}, {state} {zip}-{zip4}" of the returned address
Formatted(c) ==
    LET a == Data(c).address[1]
    IN  Str(a.streetAddress[1]) \o ", " \o a.city[1] \o ", " \o a.state[1]
        \o " " \o a.ZIPCode[1] \o "-" \o a.ZIPPlus4[1]

HasErrors(c) == Data(c).errors # None /\ Data(c).errors[1] # <<>>

-----------------------------------------------------------------------------
\* C1: street-mismatch dominance.  Whenever the service returned an address
\* and the submitted street differs from the returned street after
\* trim+uppercase, the message is "Address was corrected. Suggested address: "
\* followed by the returned address, whatever the DPV confirmation code.
StreetMismatchDominance ==
    \A c \in Calls :
        (HasStreet(c) /\ ~StreetsMatch(c))
            => result[c] = Some("Address was corrected. Suggested address: "
                                \o Formatted(c))

\* a mismatching street with confirmation 'Y' was reported as a correction
StreetMismatchConfirmedReached ==
    \E c \in Calls :
        /\ HasStreet(c) /\ ~StreetsMatch(c) /\ Code(c) = Some("Y")
        /\ result[c] = Some("Address was corrected. Suggested address: "
                            \o Formatted(c))

\* C2: whenever the returned street equals the submitted street after
\* trimming and uppercasing and the confirmation code is 'Y', the message is
\* exactly "Address is valid.".
ConfirmedMatchIsValid ==
    \A c \in Calls :
        (HasStreet(c) /\ StreetsMatch(c) /\ Code(c) = Some("Y"))
            => result[c] = Some("Address is valid.")

\* streets that differ in case and surrounding whitespace only were accepted
CaseWhitespaceMatchReached ==
    \E c \in Calls :
        /\ HasStreet(c) /\ StreetsMatch(c) /\ Code(c) = Some("Y")
        /\ SubmittedStreet(c) # VerifiedStreet(c)
        /\ Trim(SubmittedStreet(c)) # SubmittedStreet(c)
        /\ ToUpperCase(SubmittedStreet(c)) # SubmittedStreet(c)
        /\ result[c] = Some("Address is valid.")

\* C3: whenever the normalized streets are equal and the confirmation code is
\* 'D' or 'S', the message is "Address could be more accurate. Suggested
\* address: " followed by the returned, un-normalized address.
SecondaryMatchIsAccuracySuggestion ==
    \A c \in Calls :
        (HasStreet(c) /\ StreetsMatch(c) /\ Code(c) \in {Some("D"), Some("S")})
            => result[c] = Some("Address could be more accurate. Suggested address: "
                                \o Formatted(c))

\* a returned street that is not in normalized form was suggested as returned
UnnormalizedSuggestionReached ==
    \E c \in Calls :
        /\ HasStreet(c) /\ StreetsMatch(c) /\ Code(c) = Some("S")
        /\ Norm(VerifiedStreet(c)) # VerifiedStreet(c)
        /\ result[c] = Some("Address could be more accurate. Suggested address: "
                            \o Formatted(c))

\* C4: whenever the parsed lookup body carries no address, the message is
\* "Invalid Address. Reason: " followed by the first error's text when there
\* is one, and "Address is invalid." when errors is missing or empty, whatever
\* the submitted street and the confirmation code.
UnmatchedIsInvalid ==
    \A c \in Calls :
        (Evaluated(c) /\ Data(c).address = None)
            => /\ (HasErrors(c) /\ Data(c).errors[1][1].text # None)
                    => result[c] = Some("Invalid Address. Reason: "
                                        \o Data(c).errors[1][1].text[1])
               /\ ~HasErrors(c) => result[c] = Some("Address is invalid.")

\* an unmatched reply with two errors and a 'Y' code reported the first error
UnmatchedReasonReached ==
    \E c \in Calls :
        /\ Evaluated(c) /\ Data(c).address = None
        /\ Data(c).additionalInfo # None /\ Code(c) = Some("Y")
        /\ HasErrors(c) /\ Len(Data(c).errors[1]) > 1
        /\ result[c] = Some("Invalid Address. Reason: Address Not Found.")

\* C5: whenever the service returned an address, the normalized streets are
\* equal and the confirmation code is none of 'Y', 'D', 'S' (another value, a
\* missing code or no additionalInfo), the message is "Address is invalid.",
\* also when the reply carries an errors list.
UnrecognizedCodeIsInvalid ==
    \A c \in Calls :
        (HasStreet(c) /\ StreetsMatch(c)
         /\ Code(c) \notin {Some("Y"), Some("D"), Some("S")})
            => result[c] = Some("Address is invalid.")

\* a matching street without additionalInfo and with errors was found invalid
UnrecognizedCodeWithErrorsReached ==
    \E c \in Calls :
        /\ HasStreet(c) /\ StreetsMatch(c)
        /\ Data(c).additionalInfo = None
        /\ HasErrors(c) /\ Data(c).errors[1][1].text # None
        /\ result[c] = Some("Address is invalid.")

-----------------------------------------------------------------------------
(* Upstream failures *)

TokenFetchFailed(c) == Done(c) /\ tokenResponse[c] = None

TokenStatusFailed(c) == tokenResponse[c] # None /\ ~tokenResponse[c][1].ok

LookupFetchFailed(c) ==
    Done(c) /\ lookupCalls[c] > 0 /\ validationResponse[c] = None

LookupStatusFailed(c) ==
    Done(c) /\ validationResponse[c] # None /\ ~validationResponse[c][1].ok

UpstreamFailed(c) ==
    \/ TokenFetchFailed(c)
    \/ Done(c) /\ TokenStatusFailed(c)
    \/ LookupFetchFailed(c)
    \/ LookupStatusFailed(c)

\* the explanations an Unmatched outcome could carry
ReasonTexts ==
    {Interpolate(e[1].text) : e \in ErrorLists \ {<<>>}}
        \cup FetchErrors \cup {TokenError}
        \cup {ValidationError(st) : st \in StatusCodes}

InvalidMessages ==
    {"Address is invalid."}
        \cup {"Invalid Address. Reason: " \o r : r \in ReasonTexts}

\* C6 as stated: whenever the token exchange or the address lookup fails
\* (rejected fetch or non-success status), the tool's message is an Invalid
\* verdict message and never an error surfaced from the failure.
UpstreamFailureIsInvalidVerdict ==
    \A c \in Calls :
        UpstreamFailed(c)
            => /\ result[c] # None
               /\ result[c][1] \in InvalidMessages

\* C6 as amended: whenever the token exchange or the address lookup fails,
\* no verdict logic runs and the tool's message is "Error: " followed by the
\* message of the failure: "Failed to get USPS access token" for a
\* non-success token status, "Failed to validate address with USPS API.
\* Status: {status}" for a non-success lookup status whose body was read, and
\* the rejection's own message otherwise.
UpstreamFailureIsErrorText ==
    \A c \in Calls :
        UpstreamFailed(c)
            => /\ validationData[c] = None
               /\ caught[c] # None
               /\ result[c] = Some("Error: " \o caught[c][1])
               /\ result[c][1] \notin InvalidMessages
               /\ (TokenFetchFailed(c) \/ LookupFetchFailed(c))
                      => caught[c][1] \in FetchErrors
               /\ TokenStatusFailed(c)
                      => caught[c][1] = "Failed to get USPS access token"
               /\ LookupStatusFailed(c)
                      => \/ caught[c][1] \in FetchErrors
                         \/ caught[c][1] =
                                "Failed to validate address with USPS API. Status: "
                                \o ToString(validationResponse[c][1].status)

\* a lookup answered 404 and the tool returned the error text of that status
LookupStatusErrorReached ==
    \E c \in Calls :
        /\ LookupStatusFailed(c)
        /\ validationResponse[c][1].status = 404
        /\ result[c] =
               Some("Error: Failed to validate address with USPS API. Status: 404")

-----------------------------------------------------------------------------
\* a well-formed outcome: Unmatched, or Matched with all five address fields
WellFormed(c) == Evaluated(c) /\ (Data(c).address # None => HasStreet(c))

\* the four verdict forms, built from the reply the invocation received
VerdictMessages(c) ==
    {"Address is valid.", "Address is invalid."}
        \cup (IF HasStreet(c)
              THEN {"Address was corrected. Suggested address: " \o Formatted(c),
                    "Address could be more accurate. Suggested address: "
                        \o Formatted(c)}
              ELSE {})
        \cup (IF HasErrors(c)
              THEN {"Invalid Address. Reason: "
                        \o Interpolate(Data(c).errors[1][1].text)}
              ELSE {})

\* C7: totality.  For every well-formed pair of submitted address and
\* verification outcome the evaluation does not fail and yields one message
\* of one of the four verdict forms.
Totality ==
    \A c \in Calls :
        WellFormed(c)
            => /\ caught[c] = None
               /\ result[c] # None
               /\ result[c][1] \in VerdictMessages(c)

\* a Matched reply without additionalInfo was evaluated without failing
NoAdditionalInfoEvaluatedReached ==
    \E c \in Calls :
        /\ WellFormed(c) /\ HasStreet(c) /\ Data(c).additionalInfo = None
        /\ caught[c] = None
        /\ result[c] # None

\* C8: never silently valid.  The message "Address is valid." is produced
\* only if the service returned an address, the streets are equal after
\* trim+uppercase and the confirmation code is exactly 'Y'.
ValidOnlyIfConfirmedMatch ==
    \A c \in Calls :
        result[c] = Some("Address is valid.")
            => /\ HasStreet(c)
               /\ StreetsMatch(c)
               /\ Code(c) = Some("Y")
               /\ ~UpstreamFailed(c)

\* a confirmed matching address was found valid
ValidReached ==
    \E c \in Calls :
        /\ result[c] = Some("Address is valid.")
        /\ HasStreet(c) /\ StreetsMatch(c) /\ Code(c) = Some("Y")

-----------------------------------------------------------------------------
\* what an invocation submitted and received
Inputs(c) ==
    <<params[c], tokenResponse[c], validationResponse[c], validationData[c],
      caught[c]>>

SameOutcome ==
    \A c, d \in Calls :
        (Done(c) /\ Done(d) /\ Inputs(c) = Inputs(d)) => result[c] = result[d]

\* a step of the handler touches the state of one invocation only
Isolation ==
    \E c \in Calls :
        \A d \in Calls \ {c} :
            /\ pc'[d] = pc[d] /\ params'[d] = params[d]
            /\ tokenResponse'[d] = tokenResponse[d]
            /\ validationUrl'[d] = validationUrl[d]
            /\ lookupCalls'[d] = lookupCalls[d]
            /\ validationResponse'[d] = validationResponse[d]
            /\ validationData'[d] = validationData[d]
            /\ caught'[d] = caught[d] /\ result'[d] = result[d]

\* C9: independence of concurrent invocations.  Under any interleaving, a
\* step of one invocation changes nothing of another, and two invocations
\* with identical arguments and identical responses return identical
\* messages.
Independence == [](SameOutcome) /\ [][Isolation]_vars

\* two invocations with identical inputs were evaluated while a third, with
\* other arguments, was in flight
InterleavedTwinsReached ==
    \E c, d, e \in Calls :
        /\ c # d /\ Evaluated(c) /\ Evaluated(d) /\ Inputs(c) = Inputs(d)
        /\ HasStreet(c)
        /\ params[e] # None /\ params[e] # params[c] /\ ~Done(e)
        /\ result[c] = result[d]

-----------------------------------------------------------------------------
\* the lookup is issued at most once, and only after a successful token reply
LookupAfterToken ==
    \A c \in Calls :
        /\ lookupCalls[c] <= 1
        /\ lookupCalls[c] = 1
               => tokenResponse[c] # None /\ tokenResponse[c][1].ok
        /\ (TokenFetchFailed(c) \/ TokenStatusFailed(c))
               => /\ lookupCalls[c] = 0
                  /\ validationUrl[c] = None
                  /\ validationResponse[c] = None
                  /\ validationData[c] = None
        /\ validationData[c] # None => lookupCalls[c] = 1
        /\ result[c] # None <=> Done(c)

\* a returned result is never replaced
ResultKept ==
    \A c \in Calls : result[c] # None => result'[c] = result[c]

Returns ==
    \A c \in Calls : (pc[c] # "idle") ~> (Done(c) /\ result[c] # None)

\* C10: in one invocation the address lookup is issued only after the token
\* exchange completed with a success status, and at most once; after a failed
\* token exchange no lookup is issued and no verdict logic runs; and every
\* invocation eventually returns exactly one text result.
CallOrdering == [](LookupAfterToken) /\ [][ResultKept]_vars /\ Returns

\* an invocation returned a verdict after a successful token exchange and
\* one lookup
ReturnedAfterLookupReached ==
    \E c \in Calls :
        /\ Done(c) /\ lookupCalls[c] = 1 /\ validationData[c] # None
        /\ tokenResponse[c] # None /\ tokenResponse[c][1].ok
        /\ result[c] # None

====
